---- MODULE Spec2Model ----
(***************************************************************************)
(* Model of metropolis-hastings.py: the substitution codec (encipher),     *)
(* the random permutation and transposition generators (permuteAlph,       *)
(* swapCipher), the log-likelihood scorer (measure), the acceptance rule   *)
(* (acceptProb) and the search loop (metropolisHastings).                  *)
(*                                                                         *)
(* Numbers.  A score (a sum of logarithms) is an integer number of nats.   *)
(* A probability is a Python float kept in the log domain: either 0.0      *)
(* (zero = TRUE) or e^ln (zero = FALSE).  math.log reads ln back, math.exp *)
(* builds e^x and underflows to 0.0 below ExpUnderflow, as IEEE doubles    *)
(* do.  Rounding inside the double mantissa is not modelled.               *)
(***************************************************************************)
EXTENDS Integers, Sequences, FiniteSets

VARIABLES
    alphabet,               \* metropolisHastings / acceptProb / measure argument
    encipheredMessage,      \* the message being decoded
    M,                      \* transition table M[c1][c2]
    max_iter,               \* iteration budget
    currCipher,             \* current reverse cipher (X of acceptProb)
    bestRevCipher,          \* best reverse cipher found so far
    nextCipher,             \* proposed reverse cipher (Y of acceptProb)
    i,                      \* number of loop iterations completed
    acceptanceProbability,  \* value returned by acceptProb
    pc,                     \* position in the running function
    raised,                 \* the exception that ended the run, or "none"
    result,                 \* value returned by metropolisHastings
    nProposals,             \* calls of swapCipher that returned
    nDecisions,             \* acceptance tests performed (line 243)
    message,                \* encipher argument (codec runs)
    cipher,                 \* encipher argument (codec runs); measure argument
    encMessage,             \* encipher(message, cipher, alphabet)
    decMessage,             \* encipher(encMessage, alphabet, cipher)
    unscrambled,            \* measure's / acceptProb's decoded text for X
    unscrambledY,           \* acceptProb's decoded text for Y
    logProb,                \* value returned by measure
    diff                    \* acceptProb's logProbY - logProbX

vars == <<alphabet, encipheredMessage, M, max_iter, currCipher, bestRevCipher,
          nextCipher, i, acceptanceProbability, pc, raised, result,
          nProposals, nDecisions, message, cipher, encMessage, decMessage,
          unscrambled, unscrambledY, logProb, diff>>

loopVars == <<max_iter, bestRevCipher, i, result, nProposals, nDecisions>>
codecVars == <<message, encMessage, decMessage>>
scoreVars == <<unscrambled, unscrambledY, logProb, diff>>

-----------------------------------------------------------------------------
(* Bounds of the model. *)

\* longest message of the codec and scorer runs
MaxMsgLen == 3
\* longest message of the search runs
MaxLoopMsgLen == 2
\* largest iteration budget
MaxIter == 2
\* length of the one long message of the scorer runs (one repeated symbol)
LongLen == 44

\* the alphabets tried: none, one, two and three symbols
Alphabets == {<< >>, <<"a">>, <<"a", "b">>, <<"a", "b", "c">>}

\* symbols a message may hold; "_" is in no alphabet and in no table
MsgSymbols == {"a", "b", "c", "_"}

SeqsUpTo(S, n) == UNION {[1..k -> S] : k \in 0..n}

Messages == SeqsUpTo(MsgSymbols, MaxMsgLen)
LoopMessages == SeqsUpTo(MsgSymbols, MaxLoopMsgLen)
LongMessage == [k \in 1..LongLen |-> "a"]

Range(s) == {s[k] : k \in 1..Len(s)}

\* every ordering of the symbols of alph
Perms(alph) ==
    {s \in [1..Len(alph) -> Range(alph)] :
        \A p, q \in 1..Len(alph) : p # q => s[p] # s[q]}

IsPermutationOf(s, alph) ==
    /\ Len(s) = Len(alph)
    /\ Range(s) = Range(alph)
    /\ \A p, q \in 1..Len(s) : p # q => s[p] # s[q]

\* no cipher assigned yet
Unset == << >>

-----------------------------------------------------------------------------
(* Floats in the log domain. *)

Float(l) == [zero |-> FALSE, ln |-> l]
Zero == [zero |-> TRUE, ln |-> 0]
One == Float(0)

\* a > b on floats
Greater(a, b) == /\ ~a.zero
                 /\ (b.zero \/ a.ln > b.ln)

\* math.exp(x) is 0.0 for every x below this (doubles: e^-745 = 5e-324, e^-746 = 0.0)
ExpUnderflow == -745

mathexp(x) == IF x < ExpUnderflow THEN Zero ELSE Float(x)

mathlog(p) == p.ln

\* values random.uniform(0.0, 1.0) can return: 0.0, or a float in [2^-53, 1)
UniformDraws == {Zero} \cup {Float(l) : l \in {-36, -21, -2, -1}}

-----------------------------------------------------------------------------
(* Transition tables. *)

Floor == Float(-20)

\* the table of the three-symbol scenario: a->b and b->c likely, the rest floored
ScenarioModel ==
    [c1 \in {"a", "b", "c"} |->
        [c2 \in {"a", "b", "c"} |->
            IF <<c1, c2>> \in {<<"a", "b">>, <<"b", "c">>} THEN Float(-1) ELSE Floor]]

\* a table built for the alphabet a, b only: every lookup of c misses
PartialModel ==
    [c1 \in {"a", "b"} |->
        [c2 \in {"a", "b"} |->
            IF c1 = c2 THEN (IF c1 = "a" THEN Float(-2) ELSE Floor)
            ELSE (IF c1 = "a" THEN Float(-1) ELSE Float(-3))]]

Models == {ScenarioModel, PartialModel}

-----------------------------------------------------------------------------
(* encipher (lines 39-61). *)

\* mutant of cipherMap: the index into cipher is off by one (wrapping)
cipherMapBadIndex(ciph, alph) ==
    [c \in Range(alph) |->
        ciph[((CHOOSE k \in 1..Len(alph) :
                 /\ alph[k] = c
                 /\ \A q \in 1..Len(alph) : alph[q] = c => q <= k) % Len(alph)) + 1]]

\* lines 41-48: cipherMap[char] = cipher[k] for each char of the alphabet
\* argument; a later index overwrites an earlier one
cipherMap(ciph, alph) ==
    [c \in Range(alph) |->
        ciph[CHOOSE k \in 1..Len(alph) :
                /\ alph[k] = c
                /\ \A q \in 1..Len(alph) : alph[q] = c => q <= k]]

\* line 46 reads cipher[k] for every index of the alphabet argument: a shorter
\* cipher raises IndexError, which the except KeyError clause does not catch
encipherRaises(ciph, alph) == Len(ciph) < Len(alph)

\* mutant of encipher: a symbol missing from cipherMap is dropped
encipherDropsUnknown(msg, ciph, alph) ==
    LET known == SelectSeq(msg, LAMBDA c : c \in Range(alph))
    IN  [k \in 1..Len(known) |-> cipherMap(ciph, alph)[known[k]]]

\* lines 50-61: every symbol found in cipherMap is replaced, every other
\* symbol (KeyError) is left as it is
encipher(msg, ciph, alph) ==
    [k \in 1..Len(msg) |->
        IF msg[k] \in DOMAIN cipherMap(ciph, alph)
        THEN cipherMap(ciph, alph)[msg[k]]
        ELSE msg[k]]

-----------------------------------------------------------------------------
(* permuteAlph (lines 18-23) and swapCipher (lines 75-79). *)

\* line 22: random.sample(alphabet, len(alphabet)) is any ordering
permuteAlph(alph) == Perms(alph)

\* mutant of swapCipherRaises: no population check
swapCipherNeverRaises(ciph) == FALSE

\* line 77: random.sample(range(n), 2) needs a population of at least 2
swapCipherRaises(ciph) == Len(ciph) < 2

\* line 77: two distinct positions
swapPositions(ciph) ==
    {pq \in (1..Len(ciph)) \X (1..Len(ciph)) : pq[1] # pq[2]}

\* mutant of swapAt: position q keeps its symbol
swapAtOverwrite(ciph, p, q) ==
    [k \in 1..Len(ciph) |-> IF k = p THEN ciph[q] ELSE ciph[k]]

\* lines 76 and 78: a fresh list with positions p and q exchanged

swapAt(ciph, p, q) ==
    [k \in 1..Len(ciph) |->
        IF k = p THEN ciph[q] ELSE IF k = q THEN ciph[p] ELSE ciph[k]]

-----------------------------------------------------------------------------
(* measure (lines 204-212) and acceptProb (lines 153-185). *)

\* mutant of unscramble: the two orderings exchanged
unscrambleForward(ciph, msg, alph) == encipher(msg, ciph, alph)

\* lines 155-158 and 206: the decoded text, encipher(encipheredMessage, alphabet, cipher)
unscramble(ciph, msg, alph) == encipher(msg, alph, ciph)

\* lines 163-174 and 207-211: the sum of math.log(M[text[k]][text[k+1]]) over
\* the adjacent pairs of text, a pair missing from the table (KeyError) skipped
RECURSIVE sumLogs(_, _, _)
sumLogs(text, table, k) ==
    IF k >= Len(text) THEN 0
    ELSE (IF /\ text[k] \in DOMAIN table
             /\ text[k + 1] \in DOMAIN table[text[k]]
          THEN mathlog(table[text[k]][text[k + 1]])
          ELSE 0)
         + sumLogs(text, table, k + 1)

measure(ciph, msg, table, alph) == sumLogs(unscramble(ciph, msg, alph), table, 1)

\* line 177
scoreDiff(X, Y, msg, table, alph) ==
    sumLogs(unscramble(Y, msg, alph), table, 1)
        - sumLogs(unscramble(X, msg, alph), table, 1)

\* mutant of acceptanceOf: no branch for a better proposal
acceptanceOfNoClamp(d) == mathexp(d)

\* lines 180-183
acceptanceOf(d) == IF d > 0 THEN One ELSE mathexp(d)

acceptProb(X, Y, msg, table, alph) == acceptanceOf(scoreDiff(X, Y, msg, table, alph))

-----------------------------------------------------------------------------
(* metropolisHastings (lines 230-248). *)

\* mutant of improves: every accepted cipher becomes the best one
improvesAlways(cand, best, msg, table, alph) == TRUE

\* mutant of improves: the best cipher is never replaced
improvesNever(cand, best, msg, table, alph) == FALSE

\* line 246: the accepted cipher replaces the best one when it scores strictly higher
improves(cand, best, msg, table, alph) ==
    measure(cand, msg, table, alph) > measure(best, msg, table, alph)

\* mutant of loopContinues: the loop gives up after its first iteration
loopContinuesEarlyStop(done, budget) == done < budget /\ done < 1

\* line 238: range(max_iter) yields another value
loopContinues(done, budget) == done < budget

Init ==
    /\ alphabet \in Alphabets
    /\ encipheredMessage \in LoopMessages
    /\ M \in Models
    /\ max_iter \in 0..MaxIter
    /\ currCipher = Unset
    /\ bestRevCipher = Unset
    /\ nextCipher = Unset
    /\ i = 0
    /\ acceptanceProbability = Zero
    /\ pc = "start"
    /\ raised = "none"
    /\ result = Unset
    /\ nProposals = 0
    /\ nDecisions = 0
    /\ message = << >>
    /\ cipher = Unset
    /\ encMessage = << >>
    /\ decMessage = << >>
    /\ unscrambled = << >>
    /\ unscrambledY = << >>
    /\ logProb = 0
    /\ diff = 0

\* lines 233-236
Initialise ==
    /\ pc = "start"
    /\ currCipher' \in permuteAlph(alphabet)
    /\ bestRevCipher' = currCipher'
    /\ pc' = "loop"
    /\ UNCHANGED <<alphabet, encipheredMessage, M, max_iter, nextCipher, i,
                   acceptanceProbability, raised, result, nProposals, nDecisions,
                   cipher>>
    /\ UNCHANGED <<codecVars, scoreVars>>

\* mutant of Propose: the exchange is made in the current cipher's own list
ProposeInPlace ==
    /\ pc = "loop"
    /\ loopContinues(i, max_iter)
    /\ ~swapCipherRaises(currCipher)
    /\ \E pq \in swapPositions(currCipher) :
           nextCipher' = swapAt(currCipher, pq[1], pq[2])
    /\ currCipher' = nextCipher'
    /\ nProposals' = nProposals + 1
    /\ pc' = "decide"
    /\ UNCHANGED <<alphabet, encipheredMessage, M, max_iter,
                   bestRevCipher, i, acceptanceProbability, raised, result,
                   nDecisions, cipher>>
    /\ UNCHANGED <<codecVars, scoreVars>>

\* line 239, swapCipher returning
Propose ==
    /\ pc = "loop"
    /\ loopContinues(i, max_iter)
    /\ ~swapCipherRaises(currCipher)
    /\ \E pq \in swapPositions(currCipher) :
           nextCipher' = swapAt(currCipher, pq[1], pq[2])
    /\ nProposals' = nProposals + 1
    /\ pc' = "decide"
    /\ UNCHANGED <<alphabet, encipheredMessage, M, max_iter, currCipher,
                   bestRevCipher, i, acceptanceProbability, raised, result,
                   nDecisions, cipher>>
    /\ UNCHANGED <<codecVars, scoreVars>>

\* line 239, swapCipher raising ValueError out of random.sample
ProposeRaises ==
    /\ pc = "loop"
    /\ loopContinues(i, max_iter)
    /\ swapCipherRaises(currCipher)
    /\ raised' = "ValueError"
    /\ pc' = "raised"
    /\ UNCHANGED <<alphabet, encipheredMessage, M, max_iter, currCipher,
                   bestRevCipher, nextCipher, i, acceptanceProbability, result,
                   nProposals, nDecisions, cipher>>
    /\ UNCHANGED <<codecVars, scoreVars>>

\* lines 240-247
Decide ==
    /\ pc = "decide"
    /\ acceptanceProbability' =
           acceptProb(currCipher, nextCipher, encipheredMessage, M, alphabet)
    /\ \E u \in UniformDraws :
           IF Greater(acceptanceProbability', u)
           THEN /\ currCipher' = nextCipher
                /\ bestRevCipher' =
                       IF improves(nextCipher, bestRevCipher, encipheredMessage,
                                   M, alphabet)
                       THEN nextCipher
                       ELSE bestRevCipher
           ELSE UNCHANGED <<currCipher, bestRevCipher>>
    /\ nDecisions' = nDecisions + 1
    /\ i' = i + 1
    /\ pc' = "loop"
    /\ UNCHANGED <<alphabet, encipheredMessage, M, max_iter, nextCipher, raised,
                   result, nProposals, cipher>>
    /\ UNCHANGED <<codecVars, scoreVars>>

\* line 248
Return ==
    /\ pc = "loop"
    /\ ~loopContinues(i, max_iter)
    /\ result' = bestRevCipher
    /\ pc' = "done"
    /\ UNCHANGED <<alphabet, encipheredMessage, M, max_iter, currCipher,
                   bestRevCipher, nextCipher, i, acceptanceProbability, raised,
                   nProposals, nDecisions, cipher>>
    /\ UNCHANGED <<codecVars, scoreVars>>

Next == Initialise \/ Propose \/ ProposeRaises \/ Decide \/ Return

Spec == Init /\ [][Next]_vars

\* the interpreter runs the one thread until it returns or raises
FairSpec == Spec /\ WF_vars(Next)

-----------------------------------------------------------------------------
(* Runs of the codec alone: encipher applied to a message and back. *)

\* the ciphers handed to encipher: every ordering of the alphabet, and every
\* ordering with its last symbol missing
Ciphers(alph) ==
    Perms(alph) \cup {SubSeq(s, 1, Len(s) - 1) : s \in {t \in Perms(alph) : Len(t) > 0}}

CodecInit ==
    /\ alphabet \in Alphabets
    /\ cipher \in Ciphers(alphabet)
    /\ message \in Messages
    /\ encMessage = << >>
    /\ decMessage = << >>
    /\ pc = "encode"
    /\ raised = "none"
    /\ encipheredMessage = << >>
    /\ M = ScenarioModel
    /\ max_iter = 0
    /\ currCipher = Unset
    /\ bestRevCipher = Unset
    /\ nextCipher = Unset
    /\ i = 0
    /\ acceptanceProbability = Zero
    /\ result = Unset
    /\ nProposals = 0
    /\ nDecisions = 0
    /\ unscrambled = << >>
    /\ unscrambledY = << >>
    /\ logProb = 0
    /\ diff = 0

\* encipher(message, cipher, alphabet), as on lines 290-291
Encode ==
    /\ pc = "encode"
    /\ ~encipherRaises(cipher, alphabet)
    /\ encMessage' = encipher(message, cipher, alphabet)
    /\ pc' = "decode"
    /\ UNCHANGED <<alphabet, encipheredMessage, M, currCipher, nextCipher,
                   acceptanceProbability, cipher, message, decMessage, raised>>
    /\ UNCHANGED <<loopVars, scoreVars>>

\* encipher(message, cipher, alphabet) with a cipher that is too short
EncodeRaises ==
    /\ pc = "encode"
    /\ encipherRaises(cipher, alphabet)
    /\ raised' = "IndexError"
    /\ pc' = "raised"
    /\ UNCHANGED <<alphabet, encipheredMessage, M, currCipher, nextCipher,
                   acceptanceProbability, cipher, codecVars>>
    /\ UNCHANGED <<loopVars, scoreVars>>

\* encipher(encMessage, alphabet, cipher), as on line 307
Decode ==
    /\ pc = "decode"
    /\ ~encipherRaises(alphabet, cipher)
    /\ decMessage' = encipher(encMessage, alphabet, cipher)
    /\ pc' = "done"
    /\ UNCHANGED <<alphabet, encipheredMessage, M, currCipher, nextCipher,
                   acceptanceProbability, cipher, message, encMessage, raised>>
    /\ UNCHANGED <<loopVars, scoreVars>>

CodecNext == Encode \/ EncodeRaises \/ Decode

CodecSpec == CodecInit /\ [][CodecNext]_vars

-----------------------------------------------------------------------------
(* Runs of the scorer alone: measure and acceptProb applied to any two ciphers. *)

ScoreInit ==
    /\ alphabet \in Alphabets
    /\ currCipher \in Perms(alphabet)
    /\ nextCipher \in Perms(alphabet)
    /\ encipheredMessage \in Messages \cup {LongMessage}
    /\ M \in Models
    /\ pc = "score"
    /\ acceptanceProbability = Zero
    /\ unscrambled = << >>
    /\ unscrambledY = << >>
    /\ logProb = 0
    /\ diff = 0
    /\ raised = "none"
    /\ max_iter = 0
    /\ bestRevCipher = Unset
    /\ i = 0
    /\ result = Unset
    /\ nProposals = 0
    /\ nDecisions = 0
    /\ cipher = Unset
    /\ message = << >>
    /\ encMessage = << >>
    /\ decMessage = << >>

\* measure(currCipher, encipheredMessage, M, alphabet), lines 204-212
CallMeasure ==
    /\ pc = "score"
    /\ unscrambled' = unscramble(currCipher, encipheredMessage, alphabet)
    /\ logProb' = measure(currCipher, encipheredMessage, M, alphabet)
    /\ pc' = "measured"
    /\ UNCHANGED <<alphabet, encipheredMessage, M, currCipher, nextCipher,
                   acceptanceProbability, cipher, raised, unscrambledY, diff>>
    /\ UNCHANGED <<loopVars, codecVars>>

\* acceptProb(currCipher, nextCipher, encipheredMessage, M, alphabet), lines 153-185
CallAcceptProb ==
    /\ pc = "score"
    /\ unscrambled' = unscramble(currCipher, encipheredMessage, alphabet)
    /\ unscrambledY' = unscramble(nextCipher, encipheredMessage, alphabet)
    /\ diff' = scoreDiff(currCipher, nextCipher, encipheredMessage, M, alphabet)
    /\ acceptanceProbability' =
           acceptProb(currCipher, nextCipher, encipheredMessage, M, alphabet)
    /\ pc' = "accepted"
    /\ UNCHANGED <<alphabet, encipheredMessage, M, currCipher, nextCipher,
                   cipher, raised, logProb>>
    /\ UNCHANGED <<loopVars, codecVars>>

ScoreNext == CallMeasure \/ CallAcceptProb

ScoreSpec == ScoreInit /\ [][ScoreNext]_vars

-----------------------------------------------------------------------------
(* Properties. *)

Score(ciph) == measure(ciph, encipheredMessage, M, alphabet)

\* C1: once assigned, the current, the best and the proposed cipher (so every
\* value permuteAlph and swapCipher returned) and the returned cipher are each
\* a permutation of the alphabet: same length, same symbols, none repeated.
C1_PermutationInvariant ==
    /\ pc # "start" =>
           /\ IsPermutationOf(currCipher, alphabet)
           /\ IsPermutationOf(bestRevCipher, alphabet)
    /\ nProposals > 0 => IsPermutationOf(nextCipher, alphabet)
    /\ pc = "done" => IsPermutationOf(result, alphabet)

C1_Witness ==
    /\ pc = "loop"
    /\ i >= 2
    /\ Len(alphabet) = 3
    /\ currCipher # bestRevCipher
    /\ nextCipher # currCipher
    /\ nextCipher # bestRevCipher

\* C2: no iteration of the loop lowers the score of the best cipher, whatever
\* is proposed and whether it is accepted or rejected.
C2_BestMonotone ==
    [][pc = "decide" =>
          measure(bestRevCipher', encipheredMessage, M, alphabet)
              >= measure(bestRevCipher, encipheredMessage, M, alphabet)]_vars

\* a worse proposal was accepted and the best cipher kept
C2_Witness ==
    /\ pc = "loop"
    /\ i >= 1
    /\ currCipher = nextCipher
    /\ Score(bestRevCipher) > Score(currCipher)

\* C3: right after initialisation and at the end of every iteration the best
\* cipher scores at least as high as the current one, so comparing the current
\* cipher with the best one on every iteration would replace nothing more.
C3_BestDominatesCurrent ==
    pc \in {"loop", "done"} =>
        /\ Score(bestRevCipher) >= Score(currCipher)
        /\ ~improves(currCipher, bestRevCipher, encipheredMessage, M, alphabet)

\* an accepted proposal became the best cipher, then a proposal was rejected
C3_Witness ==
    /\ pc = "loop"
    /\ i >= 2
    /\ currCipher # nextCipher
    /\ bestRevCipher = currCipher
    /\ Score(nextCipher) < Score(currCipher)

\* C4: encoding a message of alphabet symbols with a permutation and decoding
\* the outcome with the same permutation gives the message back.
C4_RoundTrip ==
    (/\ pc = "done"
     /\ IsPermutationOf(cipher, alphabet)
     /\ Range(message) \subseteq Range(alphabet)) => decMessage = message

C4_Witness ==
    /\ pc = "done"
    /\ Len(alphabet) = 3
    /\ \A k \in 1..3 : cipher[k] # alphabet[k]
    /\ Len(message) = 3
    /\ Range(message) = Range(alphabet)
    /\ \A k \in 1..3 : encMessage[k] # message[k]
    /\ decMessage = message

\* the output of one encipher call from source to target
Substituted(text, source, target, out) ==
    /\ Len(out) = Len(text)
    /\ \A k \in 1..Len(text) :
           /\ text[k] \notin Range(source) => out[k] = text[k]
           /\ \A q \in 1..Len(source) : text[k] = source[q] => out[k] = target[q]

\* C5: with aligned orderings encipher raises nothing, returns a text as long
\* as its input, keeps every symbol that is not in the source ordering where
\* it is, and puts target[q] wherever the input holds source[q].
C5_PassThrough ==
    /\ IsPermutationOf(cipher, alphabet) => raised = "none"
    /\ pc \in {"decode", "done"} => Substituted(message, alphabet, cipher, encMessage)
    /\ pc = "done" => Substituted(encMessage, cipher, alphabet, decMessage)

C5_Witness ==
    /\ pc = "done"
    /\ Len(alphabet) = 3
    /\ Len(message) = 3
    /\ message[2] = "_"
    /\ message[1] \in Range(alphabet)
    /\ encMessage[1] # message[1]
    /\ encMessage[2] = "_"
    /\ decMessage[2] = "_"

\* C6 as claimed: acceptProb returns a value in (0, 1], 1.0 when diff >= 0 and
\* exp(diff) otherwise, never 0 and never above 1.
C6_NeverZero ==
    pc = "accepted" =>
        /\ diff = Score(nextCipher) - Score(currCipher)
        /\ ~acceptanceProbability.zero
        /\ acceptanceProbability.ln <= 0
        /\ diff >= 0 => acceptanceProbability = One
        /\ diff < 0 => acceptanceProbability = Float(diff)

\* C6 as amended: acceptProb returns a value in [0, 1]: 1.0 when diff >= 0,
\* exp(diff) when diff < 0, which is the float 0.0 once diff is below the
\* underflow threshold of math.exp; it is never above 1.
C6_AcceptanceRule ==
    pc = "accepted" =>
        /\ diff = Score(nextCipher) - Score(currCipher)
        /\ acceptanceProbability.zero \/ acceptanceProbability.ln <= 0
        /\ diff >= 0 => acceptanceProbability = One
        /\ (diff < 0 /\ diff >= ExpUnderflow) => acceptanceProbability = Float(diff)
        /\ diff < ExpUnderflow => acceptanceProbability = Zero

\* two ciphers that decode differently and score the same
C6_Witness ==
    /\ pc = "accepted"
    /\ diff = 0
    /\ unscrambled # unscrambledY
    /\ acceptanceProbability = One

\* C7 as claimed: on an alphabet of fewer than 2 symbols the call of
\* swapCipher ends the run with an InvalidAlphabetSize error.
C7_InvalidAlphabetSize ==
    (Len(alphabet) < 2 /\ pc = "raised") => raised = "InvalidAlphabetSize"

\* C7 as amended: on an alphabet of fewer than 2 symbols a run with a budget
\* of at least 1 makes no proposal, returns nothing and ends with the
\* ValueError of random.sample; it does not stay in the loop.
C7_ValueError ==
    /\ <>(Len(alphabet) >= 2 \/ max_iter = 0 \/ pc = "raised")
    /\ []((Len(alphabet) < 2 /\ max_iter >= 1) =>
              /\ pc \notin {"decide", "done"}
              /\ nProposals = 0
              /\ result = Unset
              /\ pc = "raised" => (raised = "ValueError" /\ i = 0))

C7_Witness ==
    /\ pc = "raised"
    /\ raised = "ValueError"
    /\ Len(alphabet) = 1
    /\ max_iter >= 1
    /\ Len(encipheredMessage) > 0

\* C8: on an alphabet of at least 2 symbols the run ends by returning, after
\* exactly max_iter proposals and max_iter acceptance tests, the best cipher;
\* with a budget of 0 that is the initial permutation.
C8_FixedBudget ==
    /\ <>(Len(alphabet) < 2 \/ pc = "done")
    /\ [](Len(alphabet) >= 2 =>
              /\ pc # "raised"
              /\ pc = "done" =>
                     /\ i = max_iter
                     /\ nProposals = max_iter
                     /\ nDecisions = max_iter
                     /\ result = bestRevCipher
                     /\ max_iter = 0 => (result = currCipher /\ nextCipher = Unset))

C8_Witness ==
    /\ pc = "done"
    /\ Len(alphabet) = 3
    /\ max_iter = MaxIter
    /\ nDecisions = MaxIter
    /\ result # currCipher

\* C9 as claimed: the scorer replaces every message symbol alphabet[q] by
\* permutation[q].
C9_AlphabetToPermutation ==
    /\ pc \in {"measured", "accepted"} =>
           Substituted(encipheredMessage, alphabet, currCipher, unscrambled)
    /\ pc = "accepted" =>
           Substituted(encipheredMessage, alphabet, nextCipher, unscrambledY)

\* C9 as amended: the scorer replaces every message symbol permutation[q] by
\* alphabet[q] (source ordering the candidate, target ordering the alphabet)
\* and sums the logs of the adjacent pairs of that text.
C9_PermutationToAlphabet ==
    /\ pc \in {"measured", "accepted"} =>
           Substituted(encipheredMessage, currCipher, alphabet, unscrambled)
    /\ pc = "measured" => logProb = sumLogs(unscrambled, M, 1)
    /\ pc = "accepted" =>
           /\ Substituted(encipheredMessage, nextCipher, alphabet, unscrambledY)
           /\ diff = sumLogs(unscrambledY, M, 1) - sumLogs(unscrambled, M, 1)

C9_Witness ==
    /\ pc = "measured"
    /\ alphabet = <<"a", "b", "c">>
    /\ currCipher = <<"b", "c", "a">>
    /\ encipheredMessage = <<"a", "b", "c">>
    /\ unscrambled = <<"c", "a", "b">>

\* next is cur with the symbols of two different positions exchanged
IsTransposition(cur, next) ==
    /\ Len(next) = Len(cur)
    /\ \E p, q \in 1..Len(cur) :
           /\ p # q
           /\ next[p] = cur[q]
           /\ next[q] = cur[p]
           /\ next[p] # cur[p]
           /\ next[q] # cur[q]
           /\ \A k \in 1..Len(cur) : k \notin {p, q} => next[k] = cur[k]

\* C10: a proposal is the current cipher with exactly two positions exchanged,
\* making it changes neither the current nor the best cipher, and a rejected
\* proposal leaves both as they were.
C10_SingleTransposition ==
    [][/\ (pc = "loop" /\ pc' = "decide") =>
              /\ IsTransposition(currCipher, nextCipher')
              /\ currCipher' = currCipher
              /\ bestRevCipher' = bestRevCipher
       /\ (pc = "decide" /\ currCipher' # nextCipher) =>
              /\ currCipher' = currCipher
              /\ bestRevCipher' = bestRevCipher]_vars

C10_Witness ==
    /\ pc = "decide"
    /\ Len(alphabet) = 3
    /\ i >= 1
    /\ IsTransposition(currCipher, nextCipher)
    /\ bestRevCipher # currCipher

====
